---- MODULE Spec2Model ----
(***************************************************************************)
(* NFCopy: tray application that watches for a PC/SC reader, reads the UID *)
(* of every card presented, and keeps a rolling history of UIDs.           *)
(*                                                                         *)
(* The repository holds two programs built from the same logic:            *)
(*   "app"  - src/app/application.py (TrayApplication), with               *)
(*            src/app/nfc/observer.py and src/app/ui/notifier.py;          *)
(*   "main" - src/main.py (SmartCardTrayApp), the single-file program.     *)
(* The variable `program` says which of the two is running.                *)
(*                                                                         *)
(* Specifications:                                                         *)
(*   SpecHistory - UID-captured events and menu clicks, one at a time      *)
(*   Spec        - the monitor worker against the exit handler             *)
(*   FairSpec    - Spec with the threads scheduled fairly                  *)
(*   SpecRace    - _on_uid on card-event threads against a menu rebuild    *)
(*   SpecRead    - UIDObserver.update / _read_uid on batches of cards      *)
(***************************************************************************)
EXTENDS Integers, Sequences, FiniteSets, TLC

VARIABLES
    program,              \* "app" or "main"
    \* ---- orchestrator: history, menu, side effects
    history,              \* self.history, oldest first
    menu,                 \* the UID entries of the menu last built
    effects,              \* what the last handler requested, in order
    last_uid,             \* the UID of the last capture (None before any)
    next_uid,             \* the next UID never captured before
    recaptures,           \* captures of a UID already in the history so far
    \* ---- monitor worker and exit handler
    mpc,                  \* position of the monitor worker
    connected, name,      \* locals of _monitor_loop
    last_connected, last_name,
    reader_name,          \* self.reader_name
    is_startup_notified,  \* self.is_startup_notified
    slice,                \* index of the sleep slice
    stop_event,           \* self._stop_event
    monitor_lock,         \* holder of self._monitor_lock, or "free"
    card_monitor,         \* self._card_monitor
    observer,             \* self._observer
    subscribed,           \* observers registered with the card monitor
    xpc,                  \* position of the exit handler on the UI thread
    exits,                \* exit requests handled so far
    icon_running,         \* the tray run loop has not been stopped
    iter,                 \* what the current poll iteration has done
    \* ---- concurrent _on_uid
    tpc, tuid,            \* per card-event thread: position in _on_uid, uid
    tbase,                \* the history when the thread entered _on_uid
    \* ---- UIDObserver
    batch,                \* size of the batch update() was called with
    pending,              \* cards of the batch not read yet
    card,                 \* the card read last
    connects,             \* connect attempts made for it
    forwarded,            \* UIDs forwarded to the callback for it
    log_lines,            \* diagnostic lines written for it
    escaped,              \* an exception left _read_uid
    reads                 \* how the read of each card of the batch ended, in order

histVars == <<history, menu, effects, last_uid, next_uid, recaptures>>
monVars  == <<mpc, connected, name, last_connected, last_name, reader_name,
              is_startup_notified, slice, stop_event, monitor_lock,
              card_monitor, observer, subscribed, xpc, exits, icon_running, iter>>
raceVars == <<tpc, tuid, tbase>>
readVars == <<batch, pending, card, connects, forwarded, log_lines, escaped, reads>>
vars     == <<program, histVars, monVars, raceVars, readVars>>

(***************************************************************************)
(* Bounds of the model.                                                    *)
(***************************************************************************)
NumUids       == 11   \* distinct UIDs presented in SpecHistory
MaxRecaptures == 1    \* captures of a UID already in the history
MaxObservers  == 2    \* UIDObserver objects alive at once
MaxExits      == 2    \* exit requests
MaxEvents     == 2    \* UID-captured events running at once in SpecRace
MaxPayloadLen == 7    \* bytes in a card's response payload
MaxBatch      == 2    \* cards in one update() notification

(***************************************************************************)
(* Python values.                                                          *)
(***************************************************************************)
None    == <<>>
Some(v) == <<v>>

Programs == {"app", "main"}

(***************************************************************************)
(* collections.deque(maxlen=10)                                            *)
(***************************************************************************)
HistoryMaxlen == 10

Contains(h, u) == \E i \in 1..Len(h) : h[i] = u

NoDuplicates(h) == \A i, j \in 1..Len(h) : h[i] = h[j] => i = j

IndexOf(h, u) == CHOOSE i \in 1..Len(h) : h[i] = u /\ \A j \in 1..(i - 1) : h[j] # u

\* deque.remove(value): drops the first occurrence (ValueError when absent,
\* which _on_uid catches: the deque is then left as it was)
DequeRemoveFirstEntry(h, u) == IF h = <<>> THEN h ELSE Tail(h)

\* removal that fills the hole with the last entry
DequeRemoveSwapLast(h, u) ==
    IF ~Contains(h, u) THEN h
    ELSE IF IndexOf(h, u) = Len(h) THEN SubSeq(h, 1, Len(h) - 1)
    ELSE [SubSeq(h, 1, Len(h) - 1) EXCEPT ![IndexOf(h, u)] = h[Len(h)]]

DequeRemove(h, u) ==
    IF Contains(h, u)
    THEN SubSeq(h, 1, IndexOf(h, u) - 1) \o SubSeq(h, IndexOf(h, u) + 1, Len(h))
    ELSE h

\* deque.append(x) with maxlen: a full deque discards its leftmost entry
DequeAppendUnbounded(h, u) == Append(h, u)

DequeAppendDropsNewest(h, u) ==
    IF Len(h) >= HistoryMaxlen THEN Append(SubSeq(h, 1, Len(h) - 1), u) ELSE Append(h, u)

DequeAppend(h, u) ==
    IF Len(h) >= HistoryMaxlen THEN Append(Tail(h), u) ELSE Append(h, u)

\* lines 73-78 of _on_uid run without interruption
RecordAppendOnly(h, u) == DequeAppend(h, u)

Record(h, u) ==
    DequeAppend(IF Contains(h, u) THEN DequeRemove(h, u) ELSE h, u)

(***************************************************************************)
(* Notifier: the methods the class defines, and the calls made on it.      *)
(***************************************************************************)
NotifierMethods ==
    [app  |-> {"show_uid_toast", "show_nfc_reader_state_toast"},
     main |-> {"show_uid_toast"}]

\* the attribute looked up on self.notifier by each program
UidNotifyCall == [app |-> "uid_copied", main |-> "show_uid_toast"]

\* a call of a method the object does not have raises AttributeError
NotifierRaises(m) == m \notin NotifierMethods[program]

(***************************************************************************)
(* Initial values of the parts a specification leaves alone.               *)
(***************************************************************************)
\* iter records what the current poll iteration has done: the pair observed
\* before it, handles created and destroyed, reader-state notifications
\* delivered, whether readers() raised, whether a step of the creation
\* raised; and over the life of the loop: the rank of the iteration (1 for
\* the first, 2 for any later one) and the ranks of the iterations that
\* delivered the startup notification; rlist is the list the poll worked on
NoIteration ==
    [old |-> None, created |-> 0, destroyed |-> 0, notified |-> 0,
     listing_raised |-> FALSE, create_failed |-> FALSE,
     nth |-> 0, startups |-> <<>>, rlist |-> <<>>]

HistIdle ==
    /\ history = <<>> /\ menu = <<>> /\ effects = <<>>
    /\ last_uid = None /\ next_uid = 1 /\ recaptures = 0

MonIdle ==
    /\ mpc = "idle" /\ connected = FALSE /\ name = None
    /\ last_connected = None /\ last_name = None /\ reader_name = None
    /\ is_startup_notified = FALSE /\ slice = 0 /\ stop_event = FALSE
    /\ monitor_lock = "free" /\ card_monitor = None /\ observer = None
    /\ subscribed = {} /\ xpc = "idle" /\ exits = 0 /\ icon_running = TRUE
    /\ iter = NoIteration

RaceIdle ==
    /\ tpc = <<>> /\ tuid = <<>> /\ tbase = <<>>

ReadIdle ==
    /\ batch = 0 /\ pending = 0 /\ card = None /\ connects = 0 /\ forwarded = <<>>
    /\ log_lines = 0 /\ escaped = FALSE /\ reads = <<>>

(***************************************************************************)
(* SpecHistory: the handlers of TrayApplication / SmartCardTrayApp that    *)
(* touch the history, run one after the other.                             *)
(***************************************************************************)
InitHistory ==
    /\ program \in Programs
    /\ HistIdle /\ MonIdle /\ RaceIdle /\ ReadIdle

\* _on_uid(uid): clipboard, history, menu, notification
OnUidEffects(clipFails, menuFails) ==
    <<IF clipFails THEN "clipboard_failed" ELSE "clipboard", "history",
      IF menuFails THEN "menu_failed" ELSE "menu",
      IF NotifierRaises(UidNotifyCall[program]) THEN "notify_raised" ELSE "notify">>

OnUid(uid, clipFails, menuFails) ==
    /\ history' = Record(history, uid)
    /\ menu' = IF menuFails THEN menu ELSE history'
    /\ effects' = OnUidEffects(clipFails, menuFails)
    /\ last_uid' = Some(uid)

\* the UIDs presented: one already in the history, or the next new one
CaptureFresh ==
    /\ next_uid <= NumUids
    /\ \E clipFails, menuFails \in BOOLEAN : OnUid(next_uid, clipFails, menuFails)
    /\ next_uid' = next_uid + 1
    /\ UNCHANGED <<recaptures, program, monVars, raceVars, readVars>>

CaptureAgain ==
    /\ recaptures < MaxRecaptures
    /\ \E i \in 1..Len(history) :
          \E clipFails, menuFails \in BOOLEAN : OnUid(history[i], clipFails, menuFails)
    /\ recaptures' = recaptures + 1
    /\ UNCHANGED <<next_uid, program, monVars, raceVars, readVars>>

\* _on_click_copy_uid(uid) for an entry of the menu
OnClickCopyUidPromotes ==
    /\ menu # <<>>
    /\ \E i \in 1..Len(menu) : history' = Record(history, menu[i])
    /\ effects' = <<"clipboard", "notify">>
    /\ UNCHANGED <<menu, last_uid, next_uid, recaptures,
                   program, monVars, raceVars, readVars>>

OnClickCopyUid ==
    /\ menu # <<>>     \* the click is on one of the menu's UID entries
    /\ \E clipFails \in BOOLEAN :
          effects' =
             IF program = "app"
             THEN <<IF clipFails THEN "clipboard_failed" ELSE "clipboard",
                    IF NotifierRaises("uid_copied") THEN "notify_raised" ELSE "notify">>
             ELSE IF clipFails THEN <<"clipboard_failed">>
                  ELSE <<"clipboard", "notify">>
    /\ UNCHANGED <<history, menu, last_uid, next_uid, recaptures,
                   program, monVars, raceVars, readVars>>

NextHistory == CaptureFresh \/ CaptureAgain \/ OnClickCopyUid

SpecHistory == InitHistory /\ [][NextHistory]_vars

(***************************************************************************)
(* C1: after any sequence of UID captures from an empty history, the       *)
(* history holds at most 10 entries, holds no value twice, and its last    *)
(* entry is the UID captured most recently.                                *)
(***************************************************************************)
C1_HistoryInvariant ==
    /\ Len(history) <= 10
    /\ NoDuplicates(history)
    /\ last_uid # None => (history # <<>> /\ history[Len(history)] = last_uid[1])
    /\ last_uid = None => history = <<>>

\* a full history whose oldest entry was evicted, after a recapture
C1_Witness ==
    /\ Len(history) = 10
    /\ next_uid > 11
    /\ recaptures > 0
    /\ history[Len(history)] = last_uid[1]

(***************************************************************************)
(* Spec: the monitor worker (_monitor_loop) against the exit handler       *)
(* (_on_click_exit) on the UI thread.                                      *)
(***************************************************************************)
SleepSlices == 10

ReaderNames == {"ACR122U", "SCM"}

\* what readers() returns: no reader, one, or two in either order
ReaderLists ==
    {<<>>} \cup {<<r>> : r \in ReaderNames}
           \cup {<<r, q>> : <<r, q>> \in {p \in ReaderNames \X ReaderNames : p[1] # p[2]}}

ObserverIds == 1..MaxObservers

\* an object id not in use
FreeIds == ObserverIds \ (subscribed \cup {observer[i] : i \in 1..Len(observer)})

NewId == CHOOSE i \in FreeIds : \A j \in FreeIds : i <= j

InitMonitor ==
    /\ program \in Programs
    /\ HistIdle /\ RaceIdle /\ ReadIdle
    /\ mpc = "loop" /\ connected = FALSE /\ name = None
    /\ last_connected = None /\ last_name = None /\ reader_name = None
    /\ is_startup_notified = FALSE /\ slice = 0 /\ stop_event = FALSE
    /\ monitor_lock = "free" /\ card_monitor = None /\ observer = None
    /\ subscribed = {} /\ xpc = "ready" /\ exits = 0 /\ icon_running = TRUE
    /\ iter = NoIteration

otherVars == <<program, histVars, raceVars, readVars>>

\* ---- self._monitor_lock
LockAvailable(t) == monitor_lock = "free"

Acquire(t) == LockAvailable(t) /\ monitor_lock' = t

Release(t) == monitor_lock' = "free"

\* ---- _ensure_card_monitor_stopped, lines 136-142
\* deleteObserver ends the subscription of self._observer, if it has one;
\* whatever it raises is swallowed
DeleteObserver ==
    IF card_monitor # None /\ observer # None
    THEN subscribed \ {observer[1]}
    ELSE subscribed

StoppedDel == subscribed' = DeleteObserver

StoppedClear == observer' = None /\ card_monitor' = None

\* ---- _monitor_loop
\* line 87: while not self._stop_event.is_set()
LoopTestIgnoresStop == mpc' = "poll"

LoopTest == mpc' = IF stop_event THEN "fin_acq" ELSE "poll"

M_Loop ==
    /\ mpc = "loop"
    /\ LoopTest
    /\ UNCHANGED <<connected, name, last_connected, last_name, reader_name,
                   is_startup_notified, slice, stop_event, monitor_lock,
                   card_monitor, observer, subscribed, xpc, exits, icon_running,
                   iter, otherVars>>

\* lines 88-95: readers() returns a list or raises (then rlist = [])
M_Poll ==
    /\ mpc = "poll"
    /\ \E rlist \in ReaderLists, raises \in BOOLEAN :
          LET rl == IF raises THEN <<>> ELSE rlist IN
          /\ connected' = (Len(rl) > 0)
          /\ name' = IF Len(rl) > 0 THEN Some(rl[1]) ELSE None
          /\ iter' = [old |-> <<last_connected, last_name>>,
                      created |-> 0, destroyed |-> 0, notified |-> 0,
                      listing_raised |-> raises, create_failed |-> FALSE,
                      nth |-> IF iter.nth = 0 THEN 1 ELSE 2,
                      startups |-> iter.startups, rlist |-> rl]
    /\ mpc' = "diff"
    /\ UNCHANGED <<last_connected, last_name, reader_name,
                   is_startup_notified, slice, stop_event, monitor_lock,
                   card_monitor, observer, subscribed, xpc, exits, icon_running,
                   otherVars>>

\* _rebuild_menu: the entries are the history as it is when it is read;
\* a failure is logged and leaves the menu as it was
RebuildMenu ==
    \E fails \in BOOLEAN : menu' = IF fails THEN menu ELSE history

\* lines 97-102: the state-change branch: reader name, notification, icon
\* (_set_icon_connected logs and swallows a failure), menu.  TrayApplication calls
\* self.notifier.nfc_reader_state outside any try; SmartCardTrayApp makes no
\* notifier call here.
ChangedPresenceOnly == Some(connected) # last_connected

Changed == Some(connected) # last_connected \/ name # last_name

M_Diff ==
    /\ mpc = "diff"
    /\ IF ~Changed
       THEN /\ mpc' = "ensure"
            /\ UNCHANGED <<reader_name, last_connected, last_name, iter, menu>>
       ELSE /\ reader_name' = name
            /\ IF program = "app" /\ NotifierRaises("nfc_reader_state")
               THEN /\ mpc' = "crashed"
                    /\ UNCHANGED <<last_connected, last_name, iter, menu>>
               ELSE /\ iter' = [iter EXCEPT !.notified =
                                   IF program = "app" THEN @ + 1 ELSE @]
                    /\ RebuildMenu
                    /\ last_connected' = Some(connected)
                    /\ last_name' = name
                    /\ mpc' = "ensure"
    /\ UNCHANGED <<connected, name, is_startup_notified, slice, stop_event,
                   monitor_lock, card_monitor, observer, subscribed, xpc, exits,
                   icon_running, program, history, effects, last_uid, next_uid,
                   recaptures, raceVars, readVars>>

\* lines 104-107
M_Ensure ==
    /\ mpc = "ensure"
    /\ mpc' = IF connected THEN "start_acq" ELSE "ens_acq"
    /\ UNCHANGED <<connected, name, last_connected, last_name, reader_name,
                   is_startup_notified, slice, stop_event, monitor_lock,
                   card_monitor, observer, subscribed, xpc, exits, icon_running,
                   iter, otherVars>>

\* ---- _ensure_card_monitor_started, lines 123-131
M_StartAcquire ==
    /\ mpc = "start_acq"
    /\ Acquire("monitor")
    /\ mpc' = "start_check"
    /\ UNCHANGED <<connected, name, last_connected, last_name, reader_name,
                   is_startup_notified, slice, stop_event,
                   card_monitor, observer, subscribed, xpc, exits, icon_running,
                   iter, otherVars>>

\* line 124: if self._card_monitor is None
AlwaysCreate == TRUE

MonitorAbsent == card_monitor = None

M_StartCheck ==
    /\ mpc = "start_check"
    /\ mpc' = IF MonitorAbsent THEN "start_new" ELSE "start_rel"
    /\ UNCHANGED <<connected, name, last_connected, last_name, reader_name,
                   is_startup_notified, slice, stop_event, monitor_lock,
                   card_monitor, observer, subscribed, xpc, exits, icon_running,
                   iter, otherVars>>

\* line 126: self._card_monitor = CardMonitor(), which may raise
M_StartNew ==
    /\ mpc = "start_new"
    /\ \E raises \in BOOLEAN :
          IF raises
          THEN /\ mpc' = "start_rel" /\ UNCHANGED card_monitor
               /\ iter' = [iter EXCEPT !.create_failed = TRUE]
          ELSE /\ mpc' = "start_obs" /\ card_monitor' = Some("CardMonitor")
               /\ UNCHANGED iter
    /\ UNCHANGED <<connected, name, last_connected, last_name, reader_name,
                   is_startup_notified, slice, stop_event, monitor_lock,
                   observer, subscribed, xpc, exits, icon_running,
                   otherVars>>

\* line 127: self._observer = UIDObserver(self._on_uid), which may raise
M_StartObserver ==
    /\ mpc = "start_obs"
    /\ FreeIds # {}
    /\ \E raises \in BOOLEAN :
          IF raises
          THEN /\ mpc' = "start_rel" /\ UNCHANGED observer
               /\ iter' = [iter EXCEPT !.create_failed = TRUE]
          ELSE /\ mpc' = "start_add" /\ observer' = Some(NewId)
               /\ UNCHANGED iter
    /\ UNCHANGED <<connected, name, last_connected, last_name, reader_name,
                   is_startup_notified, slice, stop_event, monitor_lock,
                   card_monitor, subscribed, xpc, exits, icon_running,
                   otherVars>>

\* line 128: self._card_monitor.addObserver(self._observer).  With
\* self._card_monitor None the attribute lookup raises; addObserver itself
\* may raise before or after it has registered the observer.
M_StartAdd ==
    /\ mpc = "start_add"
    /\ \E outcome \in {"ok", "raised", "raised_registered"} :
          LET registers == card_monitor # None /\ observer # None
                           /\ outcome \in {"ok", "raised_registered"}
          IN  /\ subscribed' = IF registers THEN subscribed \cup {observer[1]}
                                ELSE subscribed
              /\ iter' = [iter EXCEPT !.created =
                            IF registers /\ observer[1] \notin subscribed
                            THEN @ + 1 ELSE @,
                                      !.create_failed = (outcome # "ok")]
    /\ mpc' = "start_rel"
    /\ UNCHANGED <<connected, name, last_connected, last_name, reader_name,
                   is_startup_notified, slice, stop_event, monitor_lock,
                   card_monitor, observer, xpc, exits, icon_running,
                   otherVars>>

M_StartRelease ==
    /\ mpc = "start_rel"
    /\ Release("monitor")
    /\ mpc' = "startup"
    /\ UNCHANGED <<connected, name, last_connected, last_name, reader_name,
                   is_startup_notified, slice, stop_event,
                   card_monitor, observer, subscribed, xpc, exits, icon_running,
                   iter, otherVars>>

\* ---- _ensure_card_monitor_stopped called by the monitor worker: in the
\* loop (line 107, site "ens") and after it (line 118, site "fin")
StopSites == {"ens", "fin"}

M_StopAcquire(site) ==
    /\ mpc = site \o "_acq"
    /\ Acquire("monitor")
    /\ mpc' = site \o "_del"
    /\ UNCHANGED <<connected, name, last_connected, last_name, reader_name,
                   is_startup_notified, slice, stop_event,
                   card_monitor, observer, subscribed, xpc, exits, icon_running,
                   iter, otherVars>>

M_StopDelete(site) ==
    /\ mpc = site \o "_del"
    /\ StoppedDel
    /\ iter' = [iter EXCEPT !.destroyed =
                  IF site = "ens" /\ subscribed' # subscribed THEN @ + 1 ELSE @]
    /\ mpc' = site \o "_clear"
    /\ UNCHANGED <<connected, name, last_connected, last_name, reader_name,
                   is_startup_notified, slice, stop_event, monitor_lock,
                   card_monitor, observer, xpc, exits, icon_running,
                   otherVars>>

M_StopClear(site) ==
    /\ mpc = site \o "_clear"
    /\ StoppedClear
    /\ mpc' = site \o "_rel"
    /\ UNCHANGED <<connected, name, last_connected, last_name, reader_name,
                   is_startup_notified, slice, stop_event, monitor_lock,
                   subscribed, xpc, exits, icon_running,
                   iter, otherVars>>

\* line 107 is followed by line 109; line 118 is the last of _monitor_loop
AfterStop(site) == IF site = "ens" THEN "startup" ELSE "done"

M_StopRelease(site) ==
    /\ mpc = site \o "_rel"
    /\ Release("monitor")
    /\ mpc' = AfterStop(site)
    /\ UNCHANGED <<connected, name, last_connected, last_name, reader_name,
                   is_startup_notified, slice, stop_event,
                   card_monitor, observer, subscribed, xpc, exits, icon_running,
                   iter, otherVars>>

M_Stopped ==
    \E site \in StopSites :
        \/ M_StopAcquire(site) \/ M_StopDelete(site)
        \/ M_StopClear(site) \/ M_StopRelease(site)

\* lines 109-111 (TrayApplication only): the startup notification
M_Startup ==
    /\ mpc = "startup"
    /\ IF program = "app" /\ ~is_startup_notified
       THEN IF NotifierRaises("nfc_reader_state")
            THEN /\ mpc' = "crashed"
                 /\ UNCHANGED <<is_startup_notified, iter>>
            ELSE /\ mpc' = "sleep"
                 /\ is_startup_notified' = TRUE
                 /\ iter' = [iter EXCEPT !.notified = @ + 1,
                                         !.startups = Append(@, iter.nth)]
       ELSE /\ mpc' = "sleep"
            /\ UNCHANGED <<is_startup_notified, iter>>
    /\ slice' = 0
    /\ UNCHANGED <<connected, name, last_connected, last_name, reader_name,
                   stop_event, monitor_lock,
                   card_monitor, observer, subscribed, xpc, exits, icon_running,
                   otherVars>>

\* lines 113-116: ten slices of 0.1 s, the flag tested before each
M_Sleep ==
    /\ mpc = "sleep"
    /\ IF slice >= SleepSlices \/ stop_event
       THEN mpc' = "loop" /\ slice' = 0
       ELSE mpc' = "sleep" /\ slice' = slice + 1
    /\ UNCHANGED <<connected, name, last_connected, last_name, reader_name,
                   is_startup_notified, stop_event, monitor_lock,
                   card_monitor, observer, subscribed, xpc, exits, icon_running,
                   iter, otherVars>>

MonitorStep ==
    \/ M_Loop \/ M_Poll \/ M_Diff \/ M_Ensure
    \/ M_StartAcquire \/ M_StartCheck \/ M_StartNew \/ M_StartObserver
    \/ M_StartAdd \/ M_StartRelease
    \/ M_Stopped \/ M_Startup \/ M_Sleep

\* ---- _on_click_exit, lines 185-194, on the UI thread
monLocals == <<mpc, connected, name, last_connected, last_name, reader_name,
               is_startup_notified, slice, iter>>

\* line 186
X_Set ==
    /\ xpc = "ready" /\ exits < MaxExits
    /\ stop_event' = TRUE
    /\ xpc' = "x_acq"
    /\ UNCHANGED <<monLocals, monitor_lock, card_monitor, observer, subscribed,
                   exits, icon_running, otherVars>>

\* line 188: _ensure_card_monitor_stopped
X_StopAcquire ==
    /\ xpc = "x_acq"
    /\ Acquire("exit")
    /\ xpc' = "x_del"
    /\ UNCHANGED <<monLocals, stop_event, card_monitor, observer, subscribed,
                   exits, icon_running, otherVars>>

X_StopDelete ==
    /\ xpc = "x_del"
    /\ StoppedDel
    /\ xpc' = "x_clear"
    /\ UNCHANGED <<monLocals, stop_event, monitor_lock, card_monitor, observer,
                   exits, icon_running, otherVars>>

X_StopClear ==
    /\ xpc = "x_clear"
    /\ StoppedClear
    /\ xpc' = "x_rel"
    /\ UNCHANGED <<monLocals, stop_event, monitor_lock, subscribed,
                   exits, icon_running, otherVars>>

X_StopRelease ==
    /\ xpc = "x_rel"
    /\ Release("exit")
    /\ xpc' = "x_hide"
    /\ UNCHANGED <<monLocals, stop_event, card_monitor, observer, subscribed,
                   exits, icon_running, otherVars>>

\* lines 190-194: icon.visible = False; icon.stop(); a raise is swallowed,
\* and one raised by the first statement skips the second
X_Hide ==
    /\ xpc = "x_hide"
    /\ \E visibleRaises \in BOOLEAN :
          icon_running' = IF visibleRaises THEN icon_running ELSE FALSE
    /\ exits' = exits + 1
    /\ xpc' = "ready"
    /\ UNCHANGED <<monLocals, stop_event, monitor_lock, card_monitor, observer,
                   subscribed, otherVars>>

ExitStep ==
    X_Set \/ X_StopAcquire \/ X_StopDelete \/ X_StopClear \/ X_StopRelease \/ X_Hide

Next == MonitorStep \/ ExitStep

Init == InitMonitor

Spec == Init /\ [][Next]_vars

\* both threads are scheduled by the operating system: neither waits for ever
FairSpec == Spec /\ WF_vars(MonitorStep) /\ WF_vars(ExitStep)

(***************************************************************************)
(* C2: in every reachable state, whatever the interleaving of the monitor  *)
(* loop's _ensure_card_monitor_started / _ensure_card_monitor_stopped and  *)
(* the exit handler's _ensure_card_monitor_stopped, at most one            *)
(* MonitorHandle (a CardMonitor with a subscribed UIDObserver) exists.     *)
(***************************************************************************)
C2_AtMostOneHandle == Cardinality(subscribed) <= 1

\* a handle exists, the worker is inside _ensure_card_monitor_started with
\* the lock, and the exit handler waits for the lock
C2_Witness ==
    /\ subscribed # {}
    /\ monitor_lock = "monitor" /\ mpc = "start_rel"
    /\ xpc = "x_acq"

(***************************************************************************)
(* C3: once the exit handler has set the shutdown flag and its             *)
(* _ensure_card_monitor_stopped call has returned, the monitor loop never  *)
(* creates a MonitorHandle again.                                          *)
(***************************************************************************)
ExitStopReturned == stop_event /\ (xpc = "x_hide" \/ exits > 0)

C3_NoCreateAfterExit == [][ExitStopReturned => subscribed' \subseteq subscribed]_vars

(***************************************************************************)
(* C4: with the worker scheduled fairly, once the shutdown flag is set the *)
(* monitor loop eventually exits; it takes no further sleep slice once the *)
(* flag is set; and when _monitor_loop has returned no MonitorHandle       *)
(* exists.                                                                 *)
(***************************************************************************)
MonitorExited == mpc \in {"done", "crashed"}

C4_ShutdownTerminates ==
    /\ stop_event ~> MonitorExited
    /\ [][stop_event => slice' <= slice]_vars
    /\ [](mpc = "done" => subscribed = {})

\* the loop has returned after an iteration that created a handle
C4_Witness == mpc = "done" /\ stop_event /\ iter.created = 1

(***************************************************************************)
(* C5: the monitor loop stops iterating only when the shutdown flag is     *)
(* set; a failure raised by a notification, an icon swap or a menu rebuild *)
(* during an iteration never terminates the worker.                        *)
(***************************************************************************)
LoopStopped == mpc \in {"crashed", "done", "fin_acq", "fin_del", "fin_clear", "fin_rel"}

C5_OnlyShutdownStopsLoop == LoopStopped => stop_event

(***************************************************************************)
(* C6: a poll of TrayApplication that observes absent -> present causes    *)
(* exactly one MonitorHandle creation and exactly one reader-state         *)
(* notification; one that observes present -> absent causes exactly one    *)
(* destruction and one notification; one whose (connected, name) equals    *)
(* the pair observed before causes none of the three.                      *)
(***************************************************************************)
IterationOver == mpc \in {"sleep", "crashed"}

C6_PollEffects ==
    (program = "app" /\ IterationOver) =>
        /\ (iter.old[1] # Some(TRUE) /\ connected) =>
               (iter.created = 1 /\ iter.notified = 1)
        /\ (iter.old[1] = Some(TRUE) /\ ~connected) =>
               (iter.destroyed = 1 /\ iter.notified = 1)
        /\ (iter.old = <<Some(connected), name>>) =>
               (iter.created = 0 /\ iter.destroyed = 0 /\ iter.notified = 0)

(***************************************************************************)
(* SpecRace: _on_uid running on card-event threads, statement by           *)
(* statement, while the monitor worker rebuilds the menu (line 101 of      *)
(* application.py, line 234 of main.py).  Each of `uid in history`,        *)
(* history.remove, history.append and list(history) is one step of the     *)
(* interpreter; nothing in _on_uid or _rebuild_menu takes a lock.          *)
(***************************************************************************)
\* the UIDs of the events: the oldest, the second and the newest entry of a
\* full history, and one that no initial history holds
RaceUids == {1, 2, HistoryMaxlen, HistoryMaxlen + 1}

\* the history before the events: 1..k, oldest first
InitialHistories == {[i \in 1..k |-> i] : k \in {0, 2, HistoryMaxlen - 1, HistoryMaxlen}}

Distinct(f) == \A i, j \in DOMAIN f : f[i] = f[j] => i = j

InitRace ==
    /\ program \in Programs
    /\ MonIdle /\ ReadIdle
    /\ history \in InitialHistories
    /\ menu = history /\ effects = <<>> /\ last_uid = None
    /\ next_uid = 1 /\ recaptures = 0
    /\ \E n \in 1..MaxEvents :
          /\ tuid \in {f \in [1..n -> RaceUids] : Distinct(f)}
          /\ tpc = [t \in 1..n |-> "copy"]
          /\ tbase = [t \in 1..n |-> history]

raceFrame == <<program, effects, last_uid, next_uid, recaptures, monVars, readVars>>

\* line 69: copy_text(uid)
U_Copy(t) ==
    /\ tpc[t] = "copy"
    /\ tpc' = [tpc EXCEPT ![t] = "test"]
    /\ tbase' = [tbase EXCEPT ![t] = history]
    /\ UNCHANGED <<history, menu, tuid, raceFrame>>

\* line 74: if uid in self.history
U_Test(t) ==
    /\ tpc[t] = "test"
    /\ tpc' = [tpc EXCEPT ![t] = IF Contains(history, tuid[t]) THEN "remove" ELSE "append"]
    /\ UNCHANGED <<history, menu, tuid, tbase, raceFrame>>

\* line 75: self.history.remove(uid); a ValueError is passed over (line 76)
U_Remove(t) ==
    /\ tpc[t] = "remove"
    /\ history' = DequeRemove(history, tuid[t])
    /\ tpc' = [tpc EXCEPT ![t] = "append"]
    /\ UNCHANGED <<menu, tuid, tbase, raceFrame>>

\* line 78: self.history.append(uid)
U_Append(t) ==
    /\ tpc[t] = "append"
    /\ history' = DequeAppend(history, tuid[t])
    /\ tpc' = [tpc EXCEPT ![t] = "menu"]
    /\ UNCHANGED <<menu, tuid, tbase, raceFrame>>

\* line 80: self._rebuild_menu()
U_Menu(t) ==
    /\ tpc[t] = "menu"
    /\ RebuildMenu
    /\ tpc' = [tpc EXCEPT ![t] = "notify"]
    /\ UNCHANGED <<history, tuid, tbase, raceFrame>>

\* line 81: self.notifier.uid_copied(uid); what it raises leaves _on_uid
U_Notify(t) ==
    /\ tpc[t] = "notify"
    /\ tpc' = [tpc EXCEPT ![t] = "done"]
    /\ UNCHANGED <<history, menu, tuid, tbase, raceFrame>>

\* the worker's _rebuild_menu in the state-change branch of _monitor_loop,
\* reached when the notifier call before it (TrayApplication) has returned
WorkerReachesRebuild == program = "main" \/ ~NotifierRaises("nfc_reader_state")

MonitorRebuild ==
    /\ WorkerReachesRebuild
    /\ RebuildMenu
    /\ UNCHANGED <<history, tpc, tuid, tbase, raceFrame>>

OnUidStep ==
    \E t \in DOMAIN tpc :
        \/ U_Copy(t) \/ U_Test(t) \/ U_Remove(t)
        \/ U_Append(t) \/ U_Menu(t) \/ U_Notify(t)

NextRace == OnUidStep \/ MonitorRebuild

SpecRace == InitRace /\ [][NextRace]_vars

(***************************************************************************)
(* C7: a menu rebuild that reads the history while one UID capture runs    *)
(* _on_uid never sees a partial update: the entries it renders are the     *)
(* history before the capture or the history after the complete record,    *)
(* never the state between the removal and the append.                     *)
(***************************************************************************)
C7_NoPartialView ==
    Len(tpc) = 1 => menu \in {tbase[1], Record(tbase[1], tuid[1])}

(***************************************************************************)
(* C8: when UID-captured events for distinct UIDs run _on_uid at the same  *)
(* time, with their membership test, removal and append interleaved in any *)
(* order, the history keeps at most 10 entries and no duplicates, and once *)
(* the events are over it contains every UID captured.                     *)
(***************************************************************************)
C8_ConcurrentCaptures ==
    /\ Len(history) <= 10
    /\ NoDuplicates(history)
    /\ (\A t \in DOMAIN tpc : tpc[t] \in {"menu", "notify", "done"}) =>
          \A t \in DOMAIN tpc : Contains(history, tuid[t])

\* two events over, on a full history: one UID was in it, the other was not
C8_Witness ==
    /\ Len(tpc) = 2 /\ tpc[1] = "done" /\ tpc[2] = "done"
    /\ Len(tbase[1]) = 10 /\ tbase[2] # tbase[1] /\ tbase[2] # history
    /\ Contains(tbase[1], tuid[1]) /\ ~Contains(tbase[1], tuid[2])
    /\ Len(history) = 10

(***************************************************************************)
(* SpecRead: UIDObserver.update and UIDObserver._read_uid                  *)
(* (src/app/nfc/observer.py for "app", src/main.py for "main").            *)
(***************************************************************************)
\* ---- smartcard.util.toHexString(bytes).replace(" ", "").upper()
HexDigits == "0123456789ABCDEF"

\* "%-0.2X" % byte
HexByte(b) ==
    SubSeq(HexDigits, (b \div 16) + 1, (b \div 16) + 1)
      \o SubSeq(HexDigits, (b % 16) + 1, (b % 16) + 1)

\* the bytes in hexadecimal, separated by one space
RECURSIVE ToHexString(_)
ToHexString(bytes) ==
    IF bytes = <<>> THEN ""
    ELSE IF Len(bytes) = 1 THEN HexByte(bytes[1])
    ELSE HexByte(bytes[1]) \o " " \o ToHexString(Tail(bytes))

\* str.replace(" ", "")
RECURSIVE RemoveSpaces(_)
RemoveSpaces(str) ==
    IF Len(str) = 0 THEN ""
    ELSE (IF SubSeq(str, 1, 1) = " " THEN "" ELSE SubSeq(str, 1, 1))
           \o RemoveSpaces(SubSeq(str, 2, Len(str)))

\* str.upper(), on the characters a hexadecimal string can hold
UpperChar(ch) ==
    CASE ch = "a" -> "A" [] ch = "b" -> "B" [] ch = "c" -> "C"
      [] ch = "d" -> "D" [] ch = "e" -> "E" [] ch = "f" -> "F"
      [] OTHER -> ch

RECURSIVE Upper(_)
Upper(str) ==
    IF Len(str) = 0 THEN ""
    ELSE UpperChar(SubSeq(str, 1, 1)) \o Upper(SubSeq(str, 2, Len(str)))

UidHex(bytes) == Upper(RemoveSpaces(ToHexString(bytes)))

\* ---- lines 52-55 of observer.py: the cascade-tag heuristic
UidBytesCascadeFromFour(data) ==
    IF Len(data) >= 4 THEN <<136>> \o SubSeq(data, 1, 3) ELSE data

UidBytes(data) ==
    IF Len(data) > 4 THEN <<136>> \o SubSeq(data, 1, 3) ELSE data

\* the UID string each program forwards (main.py has no heuristic)
ForwardedUidBy(p, data) ==
    IF p = "app" THEN UidHex(UidBytes(data)) ELSE UidHex(data)

ForwardedUid(data) == ForwardedUidBy(program, data)

\* ---- the cards presented
Example4 == <<4, 161, 43, 156>>

Example7 == <<4, 161, 43, 156, 17, 34, 51>>

\* payloads: the leading bytes of these responses
BasePayloads ==
    {Example7 \o <<68, 85, 102>>,
     <<0, 255, 10, 9, 171, 205, 239, 16, 1, 254>>,
     <<136, 4, 161, 43, 0, 0, 0, 0, 0, 0>>}

Payloads ==
    {SubSeq(b, 1, n) : b \in BasePayloads, n \in 0..MaxPayloadLen}

\* (sw1, sw2): success, "function not supported", and two near misses
Statuses == {<<144, 0>>, <<106, 129>>, <<144, 1>>, <<99, 0>>}

\* how each call on the card behaves: "cce" is CardConnectionException,
\* "err" any other exception; a call that is never made is left at "ok"
CardOf(w, create, c1, c2, tx, data, sw) ==
    [wrapped |-> w, create |-> create, c1 |-> c1, c2 |-> c2,
     tx |-> tx, data |-> data, sw |-> sw]

\* connect outcomes after which transmit is called / is not called
ConnectsOk == {<<"ok", "ok">>, <<"cce", "ok">>}

ConnectsFailed == {<<"err", "ok">>, <<"cce", "cce">>, <<"cce", "err">>}

Cards ==
    {CardOf(w, "err", "ok", "ok", "raise", <<>>, <<144, 0>>) : w \in BOOLEAN}
    \cup {CardOf(w, "ok", k[1], k[2], "raise", <<>>, <<144, 0>>) :
             w \in BOOLEAN, k \in ConnectsFailed \cup ConnectsOk}
    \cup {CardOf(x[1], "ok", x[2][1], x[2][2], "ok", x[3], x[4]) :
             x \in BOOLEAN \X ConnectsOk \X Payloads \X Statuses}

\* _coerce_card: update() gets the card bare or as the head of a tuple
CoerceCard(raw) == [x \in DOMAIN raw \ {"wrapped"} |-> raw[x]]

\* lines 43-47: connect, and on CardConnectionException one more connect
ConnectNoRetry(c) == [attempts |-> 1, ok |-> c.c1 = "ok"]

Connect(c) ==
    IF c.c1 = "cce"
    THEN [attempts |-> 2, ok |-> c.c2 = "ok"]
    ELSE [attempts |-> 1, ok |-> c.c1 = "ok"]

\* the callback is _on_uid, whose last statement is the notifier call
CallbackRaisesIn(p) == UidNotifyCall[p] \notin NotifierMethods[p]

CallbackRaises == NotifierRaises(UidNotifyCall[program])

\* line 61 / line 149: except Exception, one log line, nothing re-raised
CaughtReraised(n, sent) ==
    [connects |-> n, forwarded |-> sent, log_lines |-> 1, escaped |-> TRUE]

Caught(n, sent) ==
    [connects |-> n, forwarded |-> sent, log_lines |-> 1, escaped |-> FALSE]

\* line 50: if (sw1, sw2) == (0x90, 0x00) and data
ResponseOkFirstStatusByte(sw, data) == sw[1] = 144 /\ data # <<>>

ResponseOk(sw, data) == sw = <<144, 0>> /\ data # <<>>

\* lines 40-62 of observer.py, lines 132-150 of main.py
ReadUidIn(p, c) ==
    IF c.create = "err" THEN Caught(0, <<>>)
    ELSE LET conn == Connect(c) IN
         IF ~conn.ok THEN Caught(conn.attempts, <<>>)
         ELSE IF c.tx = "raise" THEN Caught(conn.attempts, <<>>)
         ELSE IF ResponseOk(c.sw, c.data)
              THEN IF CallbackRaisesIn(p)
                   THEN Caught(conn.attempts, <<ForwardedUidBy(p, c.data)>>)
                   ELSE [connects |-> conn.attempts,
                         forwarded |-> <<ForwardedUidBy(p, c.data)>>,
                         log_lines |-> 0, escaped |-> FALSE]
              ELSE [connects |-> conn.attempts, forwarded |-> <<>>,
                    log_lines |-> 1, escaped |-> FALSE]

ReadUid(c) == ReadUidIn(program, c)

InitRead ==
    /\ program \in Programs
    /\ HistIdle /\ MonIdle /\ RaceIdle /\ ReadIdle

readFrame == <<program, histVars, monVars, raceVars>>

\* update(observable, (added_cards, removed_cards))
Update ==
    /\ pending = 0
    /\ \E n \in 0..MaxBatch : batch' = n /\ pending' = n
    /\ card' = None /\ connects' = 0 /\ forwarded' = <<>>
    /\ log_lines' = 0 /\ escaped' = FALSE /\ reads' = <<>>
    /\ UNCHANGED readFrame

\* where the read of card c ended, given what _read_uid did (r)
ReadOutcome(c, r) ==
    IF r.escaped THEN "escaped"
    ELSE IF r.forwarded # <<>>
         THEN (IF r.log_lines = 0 THEN "forwarded" ELSE "callback_raised")
    ELSE IF c.create = "ok" /\ Connect(c).ok
         THEN (IF c.tx = "ok" THEN "bad_response" ELSE "transmit_failed")
    ELSE "connect_failed"

\* one turn of the loop of update(): the next card is read
ReadCard ==
    /\ pending > 0
    /\ \E raw \in Cards : \E r \in {ReadUid(CoerceCard(raw))} :
          /\ card' = Some(raw)
          /\ connects' = r.connects
          /\ forwarded' = r.forwarded
          /\ log_lines' = r.log_lines
          /\ escaped' = r.escaped
          /\ pending' = IF r.escaped THEN 0 ELSE pending - 1
          /\ reads' = Append(reads, [pos |-> batch - pending + 1,
                                     outcome |-> ReadOutcome(CoerceCard(raw), r)])
    /\ UNCHANGED <<batch, readFrame>>

NextRead == Update \/ ReadCard

SpecRead == InitRead /\ [][NextRead]_vars

\* ---- reading a UID string back into bytes
HexValue(ch) == CHOOSE v \in 0..15 : SubSeq(HexDigits, v + 1, v + 1) = ch

IsUpperHex(str) ==
    \A i \in 1..Len(str) : \E v \in 0..15 : SubSeq(HexDigits, v + 1, v + 1) = SubSeq(str, i, i)

ParseHex(str) ==
    [i \in 1..(Len(str) \div 2) |->
        16 * HexValue(SubSeq(str, 2 * i - 1, 2 * i - 1)) + HexValue(SubSeq(str, 2 * i, 2 * i))]

GoodResponse(c) == c.tx = "ok" /\ c.sw = <<144, 0>> /\ c.data # <<>>

Connected(c) == c.create = "ok" /\ (c.c1 = "ok" \/ (c.c1 = "cce" /\ c.c2 = "ok"))

(***************************************************************************)
(* C9: for every response with status (0x90, 0x00) and a non-empty         *)
(* payload, _read_uid of observer.py forwards exactly one UID: two         *)
(* uppercase hex digits per byte and nothing else; the bytes are the       *)
(* payload when it has at most 4 bytes, and 0x88 followed by the first 3   *)
(* payload bytes when it has more.  [04,A1,2B,9C] gives "04A12B9C" and     *)
(* [04,A1,2B,9C,11,22,33] gives "8804A12B".                                *)
(***************************************************************************)
C9_UidNormalization ==
    (program = "app" /\ card # None /\ Connected(card[1]) /\ GoodResponse(card[1])) =>
        LET data == card[1].data IN
        /\ Len(forwarded) = 1
        /\ IsUpperHex(forwarded[1])
        /\ Len(data) <= 4 =>
              (Len(forwarded[1]) = 2 * Len(data) /\ ParseHex(forwarded[1]) = data)
        /\ Len(data) > 4 =>
              (Len(forwarded[1]) = 8
               /\ ParseHex(forwarded[1]) = <<136, data[1], data[2], data[3]>>)
        /\ data = Example4 => forwarded[1] = "04A12B9C"
        /\ data = Example7 => forwarded[1] = "8804A12B"

\* the 7-byte example has been read and forwarded as "8804A12B"
C9_Witness ==
    /\ program = "app" /\ card # None
    /\ Connected(card[1]) /\ GoodResponse(card[1])
    /\ card[1].data = Example7
    /\ forwarded = <<"8804A12B">>

(***************************************************************************)
(* C10: in _read_uid a CardConnectionException on the first connect is     *)
(* followed by exactly one more connect.  If the retry succeeds the read   *)
(* goes on and a good response is forwarded; if it fails too there is no   *)
(* third connect, no UID is forwarded for the card, and nothing leaves     *)
(* _read_uid: update() goes on with the next card.                         *)
(***************************************************************************)
C10_ConnectRetry ==
    (card # None /\ card[1].create = "ok" /\ card[1].c1 = "cce") =>
        /\ connects = 2
        /\ (card[1].c2 = "ok" /\ GoodResponse(card[1])) => Len(forwarded) = 1
        /\ card[1].c2 # "ok" =>
              (forwarded = <<>> /\ ~escaped /\ log_lines = 1
               /\ pending < batch)

\* the retry failed for the first card of a batch of two; the second awaits
C10_Witness ==
    /\ card # None /\ card[1].c1 = "cce" /\ card[1].c2 = "cce"
    /\ connects = 2 /\ forwarded = <<>>
    /\ batch = 2 /\ pending = 1

(***************************************************************************)
(* C11: for every card response whose status pair differs from             *)
(* (0x90, 0x00), or whose payload is empty, _read_uid forwards no UID to   *)
(* the callback and writes exactly one diagnostic log line.                *)
(***************************************************************************)
BadResponse(c) == c.tx = "ok" /\ (c.sw # <<144, 0>> \/ Len(c.data) = 0)

C11_BadResponseLogged ==
    (card # None /\ Connected(card[1]) /\ BadResponse(card[1])) =>
        (forwarded = <<>> /\ log_lines = 1 /\ ~escaped)

\* status (0x6A, 0x81) with a payload, after a retried connect
C11_Witness ==
    /\ card # None /\ Connected(card[1]) /\ card[1].c1 = "cce"
    /\ card[1].tx = "ok" /\ card[1].sw = <<106, 129>> /\ Len(card[1].data) = 4
    /\ forwarded = <<>> /\ log_lines = 1

\* status (0x90, 0x00) with an empty payload
C11_WitnessEmpty ==
    /\ card # None /\ Connected(card[1])
    /\ card[1].tx = "ok" /\ card[1].sw = <<144, 0>> /\ card[1].data = <<>>
    /\ forwarded = <<>> /\ log_lines = 1

(***************************************************************************)
(* C12: capturing a UID that is already in the history moves it to the     *)
(* newest (last) position and leaves the set of members and the size of    *)
(* the history unchanged, for every history and every member position      *)
(* (a full history of 10 included).                                        *)
(***************************************************************************)
Members(h) == {h[i] : i \in 1..Len(h)}

Without(h, u) == SelectSeq(h, LAMBDA x : x # u)

IsRecapture == recaptures' # recaptures

C12_RecaptureMovesToNewest ==
    [][IsRecapture =>
          LET uid == last_uid'[1] IN
          /\ Contains(history, uid)
          /\ Len(history') = Len(history)
          /\ Members(history') = Members(history)
          /\ history'[Len(history')] = uid
          /\ SubSeq(history', 1, Len(history') - 1) = Without(history, uid)]_vars

\* a full history whose newest entry was recaptured from an older position
C12_Witness ==
    /\ recaptures = 1 /\ Len(history) = 10
    /\ last_uid = Some(history[10])
    /\ history[10] < history[9]

(***************************************************************************)
(* C13: capturing a UID that is not in a history already holding 10        *)
(* entries evicts exactly the oldest (first) entry and no other: the 9     *)
(* other previous members remain and the new UID is last.                  *)
(***************************************************************************)
IsFreshCapture == next_uid' # next_uid

C13_EvictsOldest ==
    [][(IsFreshCapture /\ Len(history) = 10 /\ ~Contains(history, next_uid)) =>
          /\ Len(history') = 10
          /\ history'[10] = next_uid
          /\ ~Contains(history', history[1])
          /\ \A i \in 2..10 : history'[i - 1] = history[i]]_vars

\* the 11th UID evicted the oldest entry, which was 2 because 1 had been
\* captured again
C13_Witness ==
    /\ Len(history) = 10 /\ last_uid = Some(11) /\ history[10] = 11
    /\ recaptures = 1 /\ Contains(history, 1) /\ ~Contains(history, 2)

(***************************************************************************)
(* C14: on every UID-captured event _on_uid performs its four actions in   *)
(* this order: write to the history, request the clipboard write, request  *)
(* the menu rebuild, request the "UID copied" notification.                *)
(***************************************************************************)
\* what an entry of effects requested; a notifier call that raised
\* AttributeError requested nothing
Requested(x) ==
    CASE x = "clipboard_failed" -> "clipboard"
      [] x = "menu_failed" -> "menu"
      [] OTHER -> x

CaptureHandled == Len(effects) = 4

C14_ActionOrder ==
    CaptureHandled =>
        [i \in 1..4 |-> Requested(effects[i])] = <<"history", "clipboard", "menu", "notify">>

(***************************************************************************)
(* C15: the menu action "copy again" (_on_click_copy_uid) for any UID      *)
(* leaves the history unchanged (same members, same order, same size);     *)
(* nothing but a clipboard write and a notification is requested.          *)
(***************************************************************************)
IsClick == ~IsRecapture /\ ~IsFreshCapture

C15_CopyAgainFrame ==
    [][IsClick =>
          /\ history' = history
          /\ menu' = menu
          /\ last_uid' = last_uid
          /\ \A i \in 1..Len(effects') :
                 Requested(effects'[i]) \in {"clipboard", "notify", "notify_raised"}]_vars

\* a click on an entry of a full history, after the oldest was evicted
C15_Witness ==
    /\ ~CaptureHandled /\ effects # <<>> /\ effects[1] = "clipboard"
    /\ Len(history) = 10 /\ next_uid > 11 /\ menu = history

(***************************************************************************)
(* C20: in _on_uid a failure of one side effect does not skip the other    *)
(* actions: if the clipboard write fails, the UID is still recorded, the   *)
(* menu rebuild and the notification are still requested; if the menu      *)
(* rebuild fails, the notification is still requested; the history after   *)
(* the event is what it is when nothing fails.                             *)
(***************************************************************************)
C20_FailuresDoNotSkip ==
    CaptureHandled =>
        /\ effects[1] = "clipboard_failed" =>
               /\ history[Len(history)] = last_uid[1]
               /\ Requested(effects[3]) = "menu"
               /\ effects[4] = "notify"
        /\ effects[3] = "menu_failed" => effects[4] = "notify"
        /\ history # <<>> /\ history[Len(history)] = last_uid[1]
        /\ NoDuplicates(history)

(***************************************************************************)
(* C16: if creating the subscription fails at any step of                  *)
(* _ensure_card_monitor_started (constructing the CardMonitor,             *)
(* constructing the UIDObserver, or addObserver), the MonitorHandle is     *)
(* left absent (_card_monitor is None), so that the next poll that still   *)
(* finds a reader attempts the creation again.                             *)
(***************************************************************************)
StartReturning == mpc = "start_rel"

C16_FailedCreateLeavesAbsent ==
    (StartReturning /\ iter.create_failed) => card_monitor = None

(***************************************************************************)
(* C17: at the end of the ensure step of every poll iteration in which     *)
(* the creation does not fail and no shutdown is in progress, a            *)
(* MonitorHandle (a subscribed observer) exists if and only if the poll    *)
(* found at least one reader; none survives an iteration that found no     *)
(* reader.                                                                 *)
(***************************************************************************)
EnsureOver == mpc = "startup"

C17_HandleIffReader ==
    (EnsureOver /\ ~iter.create_failed /\ ~stop_event) =>
        /\ connected <=> subscribed # {}
        /\ ~connected => card_monitor = None

(***************************************************************************)
(* C18: over the whole life of the monitor loop of TrayApplication the     *)
(* startup reader-state notification is emitted exactly once, in the       *)
(* first iteration, whether or not the state changed; no later iteration   *)
(* emits it.                                                               *)
(***************************************************************************)
FirstIterationOver == (iter.nth = 1 /\ IterationOver) \/ iter.nth = 2

C18_StartupNotifiedOnce ==
    program = "app" =>
        /\ iter.startups \in {<<>>, <<1>>}
        /\ FirstIterationOver => iter.startups = <<1>>

(***************************************************************************)
(* C19: a failure to enumerate readers in a poll iteration is treated      *)
(* exactly like an empty reader list: the observed pair becomes (not       *)
(* connected, no name), any existing MonitorHandle is destroyed, and the   *)
(* loop goes on to its next iteration instead of terminating.              *)
(***************************************************************************)
C19_ListingFailureIsNoReader ==
    iter.listing_raised =>
        /\ ~connected /\ name = None
        /\ IterationOver => (subscribed = {} /\ card_monitor = None)
        /\ mpc # "crashed"
        /\ LoopStopped => stop_event

(***************************************************************************)
(* C21: for every batch of cards delivered to UIDObserver.update, each     *)
(* card receives exactly one read attempt, in batch order, whatever        *)
(* happens to the cards before it: a connect failure, a transmit failure,  *)
(* a bad status or an exception raised by the UID callback for one card    *)
(* neither stops the reading of later cards nor leaves update.             *)
(***************************************************************************)
C21_EveryCardReadOnce ==
    /\ ~escaped
    /\ Len(reads) = batch - pending
    /\ \A i \in 1..Len(reads) : reads[i].pos = i /\ reads[i].outcome # "escaped"

\* a batch of two is over: the connect failed for the first card, the
\* callback raised for the second
C21_Witness ==
    /\ batch = 2 /\ pending = 0 /\ Len(reads) = 2
    /\ reads[1].outcome = "connect_failed"
    /\ reads[2].outcome = "callback_raised"
    /\ ~escaped

\* a transmit failure and then a bad status, before a card that is forwarded
C21_WitnessForwarded ==
    /\ batch = 2 /\ pending = 0 /\ Len(reads) = 2
    /\ reads[1].outcome \in {"transmit_failed", "bad_response"}
    /\ reads[2].outcome = "forwarded"

(***************************************************************************)
(* C22: on an exit request _on_click_exit sets the shutdown flag first,    *)
(* then destroys the MonitorHandle, and only then hides the icon and stops *)
(* the tray run loop; the run loop is stopped even when destroying the     *)
(* MonitorHandle raises; a second exit request leaves the same final state *)
(* (flag set, no MonitorHandle, run loop stopped).                         *)
(***************************************************************************)
ExitRunning == xpc # "ready"

ExitReturned == xpc = "ready" /\ exits > 0

C22_ExitSequence ==
    /\ ExitRunning => stop_event
    /\ ~icon_running => (stop_event /\ exits > 0)
    /\ ExitReturned => (stop_event /\ subscribed = {} /\ ~icon_running)

(***************************************************************************)
(* C23: in every reachable state of the monitor loop a reader name is set  *)
(* if and only if a reader is present: the stored reader_name is the label *)
(* of the first enumerated reader exactly when the last poll found at      *)
(* least one reader, and is None otherwise.                                *)
(***************************************************************************)
ReaderNameOfLastPoll ==
    /\ reader_name # None <=> Len(iter.rlist) > 0
    /\ Len(iter.rlist) > 0 => reader_name = Some(iter.rlist[1])

C23_ReaderNameIffPresent == ReaderNameOfLastPoll

\* as amended: in every state except between the enumeration of a poll
\* (lines 89-95) and the assignment of line 98 in the same iteration
PollNotStored == mpc = "diff"

C23_ReaderNameOnceStored == ~PollNotStored => ReaderNameOfLastPoll

\* the first of two readers was replaced by the other between two polls
C23_Witness ==
    /\ mpc = "ensure" /\ iter.nth = 2
    /\ iter.old = <<Some(TRUE), Some("ACR122U")>>
    /\ iter.rlist = <<"SCM", "ACR122U">>
    /\ reader_name = Some("SCM")

(***************************************************************************)
(* C24: the two UID-read implementations of the repository (_read_uid of   *)
(* app/nfc/observer.py and of main.py) are equivalent on the read path:    *)
(* for the same connect outcomes and the same card response (payload,      *)
(* sw1, sw2) they forward the same UID string, or both forward none.       *)
(***************************************************************************)
OtherProgram == IF program = "app" THEN "main" ELSE "app"

C24_ReadPathsEquivalent ==
    card # None =>
        forwarded = ReadUidIn(OtherProgram, CoerceCard(card[1])).forwarded

(***************************************************************************)
(* C25: recording a UID never reorders the other entries: for every        *)
(* history and every captured UID, the entries other than the captured UID *)
(* (and other than an evicted oldest entry) keep their relative            *)
(* oldest-to-newest order after _on_uid, and the menu built from the       *)
(* history lists them in that order.                                       *)
(***************************************************************************)
IsCapture == IsRecapture \/ IsFreshCapture

\* s is t, or t without its first entry
SameOrOldestDropped(s, t) == s = t \/ (t # <<>> /\ s = Tail(t))

C25_OthersKeepOrder ==
    [][IsCapture =>
          LET uid == last_uid'[1] IN
          /\ SameOrOldestDropped(Without(history', uid), Without(history, uid))
          /\ menu' # menu => menu' = history']_vars

\* the 11th UID evicted the oldest entry, then an entry in the middle of
\* the full history was captured again
C25_Witness ==
    /\ next_uid = 12 /\ recaptures = 1
    /\ history = <<2, 3, 4, 6, 7, 8, 9, 10, 11, 5>>
    /\ last_uid = Some(5)

====
